---- MODULE Spec2Model ----
(***************************************************************************)
(* The publish pipeline of scripts/: the queue file written by             *)
(* fetch_douban.update_publish_queue and the dispatch state file read,     *)
(* updated and written by publish_dispatch.main, one platform adapter      *)
(* call (post_to_platform) per eligible (url, platform) slot.              *)
(*                                                                         *)
(* Conventions.  A timestamp is a natural number, 0 standing for the       *)
(* empty string "" (which sorts before every ISO timestamp).  An optional  *)
(* http_code is a set: {} is None, {c} is the integer c.  A dictionary is  *)
(* a function whose DOMAIN is its key set, so a slot that was created but  *)
(* never attempted has no "http_code" key, as in the code.  The process    *)
(* environment is the set of variable names whose value is non-blank       *)
(* after strip().                                                          *)
(*                                                                         *)
(* Further sections model publish_dispatch.main started on raw files       *)
(* (load_json), update_publish_queue as a sequence of calls with time      *)
(* passing, and the poster cascade fetch_douban.ensure_local_poster with   *)
(* the poster directory it writes to, fetch_image_bytes and                *)
(* post_to_platform on their own, the ingest run fetch_douban.main over    *)
(* its feeds, and fetch_douban_details.                                    *)
(***************************************************************************)
EXTENDS Integers, Sequences, FiniteSets, TLC

VARIABLES
    queue_file,    \* automation/publish_queue.json: a sequence of queue items
    status_file,   \* automation/publish_status.json: [items, updated_at]
    clock,         \* the time now_iso() reads; one tick per dispatcher process
    sends,         \* history: urlopen() requests ever made, per slot
    delivered,     \* history: slots for which some request returned 2xx
    all_failed,    \* history: every adapter invocation so far returned "failed"
    last,          \* history: what the most recent process did
    call,          \* the most recent stand-alone adapter call (SpecAdapter)
    load,          \* the most recent run of main from raw files (SpecLoad)
    merged,        \* history: the most recent update_publish_queue call (SpecMerge)
    posters,       \* static/posters: the names of the files in it (SpecPoster)
    cascade,       \* history: the most recent ensure_local_poster call (SpecPoster)
    fetch,         \* the most recent stand-alone fetch_image_bytes call (SpecFetch)
    ingest,        \* history: the most recent run of fetch_douban.main (SpecIngest)
    details        \* the most recent fetch_douban_details call (SpecDetails)

vars == <<queue_file, status_file, clock, sends, delivered, all_failed, last, call,
          load, merged, posters, cascade, fetch, ingest, details>>

\* The variables the publish pipeline's own steps never touch.
others == <<load, merged, posters, cascade, fetch, ingest, details>>

----------------------------------------------------------------------------
(* Bounds of the model.                                                    *)

MaxRuns == 4        \* dispatcher processes started in one behaviour

\* The post urls that reach the queue (a run visits both platforms' slots of
\* each), and the order Python's string comparison gives them.
Urls == {"a"}
UrlRank == [u \in {"", "a", "b"} |-> CASE u = "" -> 0 [] u = "a" -> 1 [] u = "b" -> 2]

----------------------------------------------------------------------------
(* publish_dispatch.py: module constants.                                  *)

TARGET_PLATFORMS == <<"baijiahao", "toutiao">>

Platforms == {TARGET_PLATFORMS[i] : i \in 1..Len(TARGET_PLATFORMS)}

MAX_ATTEMPTS == 3

PLATFORM_CONFIG ==
    [p \in Platforms |->
        IF p = "baijiahao"
        THEN [endpoint_env |-> "BAIJIAHAO_PUBLISH_ENDPOINT",
              token_env    |-> "BAIJIAHAO_PUBLISH_TOKEN"]
        ELSE [endpoint_env |-> "TOUTIAO_PUBLISH_ENDPOINT",
              token_env    |-> "TOUTIAO_PUBLISH_TOKEN"]]

GATEWAY_ENV == "PUBLISH_GATEWAY_BASE_URL"

EndpointEnvNames == {PLATFORM_CONFIG[p].endpoint_env : p \in Platforms} \cup {GATEWAY_ENV}

TokenEnvNames == {PLATFORM_CONFIG[p].token_env : p \in Platforms}

\* Every process environment: the names that are set to a non-blank value.
Envs == SUBSET (EndpointEnvNames \cup TokenEnvNames)

----------------------------------------------------------------------------
(* What the network does with one request made by urlopen().               *)

Response(c) == [kind |-> "response", code |-> c]

\* urlopen raised urllib.error.HTTPError with this code.
HttpError(c) == [kind |-> "HTTPError", code |-> c]

\* urlopen raised URLError, ValueError or TimeoutError.
TransportError == [kind |-> "URLError", code |-> 0]

\* urlopen or resp.read() raised an exception of a class the adapter has no
\* except clause for (http.client.RemoteDisconnected, IncompleteRead,
\* ConnectionResetError while reading the body).
Uncaught == [kind |-> "uncaught", code |-> 0]

NetOutcomes == {Response(200), Response(304), HttpError(500), TransportError, Uncaught}

\* The outcomes drawn per slot in a dispatcher run.
DispatchNet == {Response(200), HttpError(500), TransportError, Uncaught}

----------------------------------------------------------------------------
(* publish_dispatch.post_to_platform.                                      *)
(* The value is what the call did: raised (an exception left the           *)
(* function), sent (urlopen was called), auth (the request carried an      *)
(* Authorization header), target (where the request went), and result,     *)
(* the dictionary it returned (meaningful when not raised).                *)

NoResult == [status |-> "", message |-> "", http_code |-> {}]

MissingEndpointMsg == "missing endpoint env and no PUBLISH_GATEWAY_BASE_URL"

\* ResolveEndpoint without the gateway fallback of lines 59-62.
ResolveEndpoint_NoGateway(platform, env) ==
    IF PLATFORM_CONFIG[platform].endpoint_env \in env THEN "endpoint_env" ELSE ""

\* Lines 56-62: the endpoint the request would go to, "" when there is none.
ResolveEndpoint(platform, env) ==
    LET cfg == PLATFORM_CONFIG[platform]
    IN  IF cfg.endpoint_env \in env THEN "endpoint_env"
        ELSE IF GATEWAY_ENV \in env THEN "gateway"
        ELSE ""

post_to_platform(platform, env, net) ==
    LET cfg      == PLATFORM_CONFIG[platform]
        endpoint == ResolveEndpoint(platform, env)
        token    == cfg.token_env \in env
    IN  IF endpoint = ""
        THEN [raised |-> FALSE, sent |-> FALSE, auth |-> FALSE, target |-> "",
              result |-> [status |-> "queued", message |-> MissingEndpointMsg,
                          http_code |-> {}]]
        ELSE CASE net.kind = "response" ->
                    [raised |-> FALSE, sent |-> TRUE, auth |-> token, target |-> endpoint,
                     result |-> [status |-> IF 200 <= net.code /\ net.code < 300
                                            THEN "success" ELSE "failed",
                                 message |-> "response body",
                                 http_code |-> {net.code}]]
               [] net.kind = "HTTPError" ->
                    [raised |-> FALSE, sent |-> TRUE, auth |-> token, target |-> endpoint,
                     result |-> [status |-> "failed", message |-> "HTTPError",
                                 http_code |-> {net.code}]]
               [] net.kind = "URLError" ->
                    [raised |-> FALSE, sent |-> TRUE, auth |-> token, target |-> endpoint,
                     result |-> [status |-> "failed", message |-> "URLError",
                                 http_code |-> {}]]
               [] OTHER ->
                    [raised |-> TRUE, sent |-> TRUE, auth |-> token, target |-> endpoint,
                     result |-> NoResult]

----------------------------------------------------------------------------
(* publish_dispatch.main.                                                  *)

Put(f, k, v) == [x \in DOMAIN f \cup {k} |-> IF x = k THEN v ELSE f[x]]

EmptyDict == [x \in {} |-> {}]

\* Lines 127-134: the entry created for a url first seen in the queue.
NewEntry(item, now) ==
    [title |-> item.title, source |-> item.source, date |-> item.date,
     file |-> item.file, platforms |-> EmptyDict, created_at |-> now]

\* Lines 146-151: the slot created for a platform the entry does not have.
NewSlot ==
    [status |-> "queued", last_attempt_at |-> 0, attempts |-> 0,
     message |-> "MVP queue only, publisher adapter pending"]

\* SkipSlot without the test of line 158.
SkipSlot_NoSuccessTest(slot) == slot.attempts >= MAX_ATTEMPTS

\* SkipSlot with the comparison of line 160 off by one.
SkipSlot_CapOffByOne(slot) == slot.status = "success" \/ slot.attempts > MAX_ATTEMPTS

\* SkipSlot without the test of line 160.
SkipSlot_NoCapTest(slot) == slot.status = "success"

\* Lines 158-161: the slot is skipped, the adapter is not invoked.
SkipSlot(slot) == slot.status = "success" \/ slot.attempts >= MAX_ATTEMPTS

\* RecordResult without the increment of line 166.
RecordResult_NoIncrement(slot, result, now) ==
    [k \in DOMAIN slot \cup {"http_code"} |->
        CASE k = "status"          -> result.status
          [] k = "last_attempt_at" -> now
          [] k = "attempts"        -> slot.attempts
          [] k = "message"         -> result.message
          [] OTHER                 -> result.http_code]

\* Lines 164-168: the slot after an adapter call that returned result.
RecordResult(slot, result, now) ==
    [k \in DOMAIN slot \cup {"http_code"} |->
        CASE k = "status"          -> result.status
          [] k = "last_attempt_at" -> now
          [] k = "attempts"        -> slot.attempts + 1
          [] k = "message"         -> result.message
          [] OTHER                 -> result.http_code]

SetSlot(items, url, platform, slot) ==
    [items EXCEPT ![url] = [@ EXCEPT !.platforms = Put(@, platform, slot)]]

\* The state of a run of main between two iterations of its loops: the items
\* dictionary in memory, the touched counter, whether an exception has ended
\* the run, and the adapter calls made so far.
RunState(items) ==
    [items |-> items, touched |-> 0, raised |-> FALSE,
     called |-> {}, sent |-> {}, ok |-> {}, other |-> FALSE]

\* Lines 145-169: one iteration of the inner loop.
DoPlatform(st, url, platform, env, net, now) ==
    IF st.raised THEN st
    ELSE
    LET fresh  == platform \notin DOMAIN st.items[url].platforms
        items1 == IF fresh THEN SetSlot(st.items, url, platform, NewSlot) ELSE st.items
        t1     == IF fresh THEN st.touched + 1 ELSE st.touched
        slot   == items1[url].platforms[platform]
        s      == <<url, platform>>
    IN  IF SkipSlot(slot)
        THEN [st EXCEPT !.items = items1, !.touched = t1]
        ELSE
        LET c == post_to_platform(platform, env, net[s])
            called1 == st.called \cup {s}
            sent1   == IF c.sent THEN st.sent \cup {s} ELSE st.sent
        IN  IF c.raised
            THEN [st EXCEPT !.items = items1, !.touched = t1, !.raised = TRUE,
                            !.called = called1, !.sent = sent1, !.other = TRUE]
            ELSE [st EXCEPT
                    !.items = SetSlot(items1, url, platform,
                                      RecordResult(slot, c.result, now)),
                    !.touched = t1 + 1,
                    !.called = called1,
                    !.sent = sent1,
                    !.ok = IF c.result.status = "success" THEN @ \cup {s} ELSE @,
                    !.other = @ \/ c.result.status # "failed"]

RECURSIVE DoPlatforms(_, _, _, _, _, _)
DoPlatforms(st, url, j, env, net, now) ==
    IF j > Len(TARGET_PLATFORMS) THEN st
    ELSE DoPlatforms(DoPlatform(st, url, TARGET_PLATFORMS[j], env, net, now),
                     url, j + 1, env, net, now)

\* DoItem with lines 127-134 run for every queue item, tracked or not, the
\* entry's slots and created_at carried over.
DoItem_RefreshEntry(st, item, env, net, now) ==
    IF st.raised \/ item.url = "" THEN st
    ELSE
    LET fresh  == NewEntry(item, now)
        items1 == IF item.url \in DOMAIN st.items
                  THEN [st.items EXCEPT ![item.url] =
                           [fresh EXCEPT !.platforms = st.items[item.url].platforms,
                                         !.created_at = st.items[item.url].created_at]]
                  ELSE Put(st.items, item.url, fresh)
    IN  DoPlatforms([st EXCEPT !.items = items1], item.url, 1, env, net, now)

\* Lines 122-142: one iteration of the outer loop, up to the inner loop.  The
\* payload of lines 136-142 is built from the entry's stored metadata and only
\* travels in the request body; what the network answers is drawn from
\* DispatchNet whatever the body.
DoItem(st, item, env, net, now) ==
    IF st.raised \/ item.url = "" THEN st
    ELSE
    LET items1 == IF item.url \in DOMAIN st.items THEN st.items
                  ELSE Put(st.items, item.url, NewEntry(item, now))
    IN  DoPlatforms([st EXCEPT !.items = items1], item.url, 1, env, net, now)

RECURSIVE DoQueue(_, _, _, _, _, _)
DoQueue(st, queue, i, env, net, now) ==
    IF i > Len(queue) THEN st
    ELSE DoQueue(DoItem(st, queue[i], env, net, now), queue, i + 1, env, net, now)

\* NoStateChanges with the early return of lines 171-173 never taken.
NoStateChanges_Never(st) == FALSE

\* Lines 171-173: the run ends without writing the state file.
NoStateChanges(st) == st.touched = 0

\* The whole of main: the run state at its end, whether it wrote the state
\* file, and the file's content afterwards.
main(queue, status, env, net, now) ==
    LET st      == DoQueue(RunState(status.items), queue, 1, env, net, now)
        written == ~st.raised /\ ~NoStateChanges(st)
    IN  [run     |-> st,
         written |-> written,
         status  |-> IF written THEN [items |-> st.items, updated_at |-> now]
                     ELSE status]

----------------------------------------------------------------------------
(* fetch_douban.update_publish_queue.                                      *)

\* Lines 461-469: the queue entry stored for a new item.
QueueEntry(item, now) ==
    [title |-> item.title, url |-> item.url, source |-> item.source,
     date |-> item.date, file |-> item.file, state |-> "pending", queued_at |-> now]

\* IndexCurrent rebuilding each stored entry as lines 461-469 build a new one.
RECURSIVE IndexCurrent_Requeue(_, _, _)
IndexCurrent_Requeue(by_url, current, i) ==
    IF i > Len(current) THEN by_url
    ELSE IndexCurrent_Requeue(IF current[i].url = "" THEN by_url
                              ELSE Put(by_url, current[i].url,
                                       QueueEntry(current[i], 0)),
                              current, i + 1)

\* Lines 450-455: by_url after the loop over the current queue.
RECURSIVE IndexCurrent(_, _, _)
IndexCurrent(by_url, current, i) ==
    IF i > Len(current) THEN by_url
    ELSE IndexCurrent(IF current[i].url = "" THEN by_url
                      ELSE Put(by_url, current[i].url, current[i]),
                      current, i + 1)

\* IndexNew assigning by_url[url] only when the url is not yet a key.
RECURSIVE IndexNew_KeepFirst(_, _, _, _)
IndexNew_KeepFirst(by_url, new_items, i, now) ==
    IF i > Len(new_items) THEN by_url
    ELSE IndexNew_KeepFirst(IF new_items[i].url = "" \/ new_items[i].url \in DOMAIN by_url
                            THEN by_url
                            ELSE Put(by_url, new_items[i].url,
                                     QueueEntry(new_items[i], now)),
                            new_items, i + 1, now)

\* Lines 457-469: by_url after the loop over the new items.
RECURSIVE IndexNew(_, _, _, _)
IndexNew(by_url, new_items, i, now) ==
    IF i > Len(new_items) THEN by_url
    ELSE IndexNew(IF new_items[i].url = "" THEN by_url
                  ELSE Put(by_url, new_items[i].url, QueueEntry(new_items[i], now)),
                  new_items, i + 1, now)

\* The sort key (date, url) of line 471, compared as Python compares tuples.
KeyLess(x, y) ==
    \/ x.date < y.date
    \/ x.date = y.date /\ UrlRank[x.url] < UrlRank[y.url]

\* SortedDesc without reverse=True: smallest key first.
RECURSIVE SortedDesc_Ascending(_)
SortedDesc_Ascending(S) ==
    IF S = {} THEN <<>>
    ELSE LET low == CHOOSE x \in S : \A y \in S \ {x} : KeyLess(x, y)
         IN  <<low>> \o SortedDesc_Ascending(S \ {low})

\* Line 471: the values of by_url, largest key first (the keys of by_url are
\* the urls, so no two values have the same sort key).
RECURSIVE SortedDesc(_)
SortedDesc(S) ==
    IF S = {} THEN <<>>
    ELSE LET top == CHOOSE x \in S : \A y \in S \ {x} : KeyLess(y, x)
         IN  <<top>> \o SortedDesc(S \ {top})

\* update_publish_queue writing the empty by_url when it is handed no item.
update_publish_queue_EmptyClears(current, new_items, now) ==
    LET by_url == IndexNew(EmptyDict, new_items, 1, now)
    IN  SortedDesc({by_url[u] : u \in DOMAIN by_url})

\* The queue file after update_publish_queue(new_items).
update_publish_queue(current, new_items, now) ==
    IF Len(new_items) = 0 THEN current
    ELSE LET by_url == IndexNew(IndexCurrent(EmptyDict, current, 1), new_items, 1, now)
         IN  SortedDesc({by_url[u] : u \in DOMAIN by_url})

----------------------------------------------------------------------------
(* The state machine.                                                      *)

Titles == {"t1"}
Dates == {1}

\* The items fetch_douban.main hands to update_publish_queue (lines 603-609).
FeedItems == [title : Titles, url : Urls, source : {"src"}, date : Dates, file : {"file"}]

MaxNew == 1         \* new items handed to one queue update

NewItemLists == UNION {[1..n -> FeedItems] : n \in 0..MaxNew}

Slots == Urls \X Platforms

NoCall == [platform |-> "", env |-> {}, net |-> Uncaught,
           out |-> [raised |-> FALSE, sent |-> FALSE, auth |-> FALSE, target |-> "",
                    result |-> NoResult]]

NoProcess == [op |-> "none", unconfigured |-> {}, called |-> {}, raised |-> FALSE,
              written |-> FALSE, dirty |-> FALSE]

\* No run of main from raw files yet.
NoLoad == [op |-> "none"]

\* No update_publish_queue call yet.
NoMerge == [op |-> "none"]

\* No ensure_local_poster call yet.
NoCascade == [op |-> "none", n |-> 0]

\* No stand-alone fetch_image_bytes call yet.
NoFetch == [op |-> "none"]

\* No run of fetch_douban.main yet.
NoIngest == [op |-> "none", n |-> 0, posts |-> {}]

\* No fetch_douban_details call yet.
NoDetails == [op |-> "none"]

\* Both files are missing: load_json returns its defaults (lines 113-114);
\* the poster directory is empty.
Init ==
    /\ queue_file = <<>>
    /\ status_file = [items |-> EmptyDict, updated_at |-> 0]
    /\ clock = 0
    /\ sends = [s \in Slots |-> 0]
    /\ delivered = {}
    /\ all_failed = TRUE
    /\ last = NoProcess
    /\ call = NoCall
    /\ load = NoLoad
    /\ merged = NoMerge
    /\ posters = {}
    /\ cascade = NoCascade
    /\ fetch = NoFetch
    /\ ingest = NoIngest
    /\ details = NoDetails

QueueUrls(queue) == {queue[i].url : i \in 1..Len(queue)} \ {""}

\* One process running publish_dispatch.main under environment env, the
\* network answering the request for slot s with net[s]: what it does to the
\* state file and the clock.
RunMain(env, net) == main(queue_file, status_file, env, net, clock + 1)

DispatchNets == [QueueUrls(queue_file) \X Platforms -> DispatchNet]

\* A dispatcher process, with the history of what it did.  Its environment
\* is drawn over the endpoint variables: the token variables only decide the
\* Authorization header (lines 78-79), which main never reads.
Dispatch ==
    /\ clock < MaxRuns
    /\ \E env \in SUBSET EndpointEnvNames : \E net \in DispatchNets :
         LET r == RunMain(env, net)
         IN  /\ status_file' = r.status
             /\ clock' = clock + 1
             /\ all_failed' = (all_failed /\ ~r.run.other)
             /\ last' = [op |-> "dispatch",
                         unconfigured |-> {p \in Platforms : ResolveEndpoint(p, env) = ""},
                         called |-> r.run.called,
                         raised |-> r.run.raised,
                         written |-> r.written,
                         dirty |-> r.run.items # status_file.items]
    /\ UNCHANGED <<queue_file, call, sends, delivered, others>>

\* A dispatcher process, with the history of the requests made for each slot
\* over all processes.
DispatchCounted ==
    /\ clock < MaxRuns
    /\ \E env \in SUBSET EndpointEnvNames : \E net \in DispatchNets :
         LET r == RunMain(env, net)
         IN  /\ status_file' = r.status
             /\ clock' = clock + 1
             /\ sends' = [s \in Slots |-> IF s \in r.run.sent THEN sends[s] + 1 ELSE sends[s]]
             /\ delivered' = delivered \cup r.run.ok
    /\ UNCHANGED <<queue_file, call, all_failed, last, others>>

\* One call of fetch_douban.update_publish_queue.
UpdatePublishQueue ==
    /\ \E new_items \in NewItemLists :
         queue_file' = update_publish_queue(queue_file, new_items, clock)
    /\ UNCHANGED <<status_file, clock, sends, delivered, all_failed, last, call, others>>

Next == Dispatch \/ UpdatePublishQueue

Spec == Init /\ [][Next]_vars

NextCounted == DispatchCounted \/ UpdatePublishQueue

SpecCounted == Init /\ [][NextCounted]_vars

\* The publish pipeline with the history of how many dispatcher processes
\* have run to their end since a url last entered the queue.
Completed == IF "completed" \in DOMAIN last THEN last.completed ELSE 0

DispatchQuiet ==
    /\ clock < MaxRuns
    /\ \E env \in SUBSET EndpointEnvNames : \E net \in DispatchNets :
         LET r == RunMain(env, net)
         IN  /\ status_file' = r.status
             /\ clock' = clock + 1
             /\ last' = [op |-> "dispatch",
                         unconfigured |-> {p \in Platforms : ResolveEndpoint(p, env) = ""},
                         called |-> r.run.called,
                         raised |-> r.run.raised,
                         written |-> r.written,
                         dirty |-> r.run.items # status_file.items,
                         completed |-> IF r.run.raised THEN Completed ELSE Completed + 1]
    /\ UNCHANGED <<queue_file, call, sends, delivered, all_failed, others>>

Enqueue ==
    /\ \E new_items \in NewItemLists :
         LET queue == update_publish_queue(queue_file, new_items, clock)
         IN  /\ queue_file' = queue
             /\ last' = IF QueueUrls(queue) = QueueUrls(queue_file) THEN last
                        ELSE [op |-> "enqueue", unconfigured |-> {}, called |-> {},
                              raised |-> FALSE, written |-> FALSE, dirty |-> FALSE,
                              completed |-> 0]
    /\ UNCHANGED <<status_file, clock, sends, delivered, all_failed, call, others>>

NextQuiet == DispatchQuiet \/ Enqueue

SpecQuiet == Init /\ [][NextQuiet]_vars

\* post_to_platform on its own, for every platform, environment and network
\* outcome.
AdapterCall ==
    /\ \E platform \in Platforms, env \in Envs, net \in NetOutcomes :
         call' = [platform |-> platform, env |-> env, net |-> net,
                  out |-> post_to_platform(platform, env, net)]
    /\ UNCHANGED <<queue_file, status_file, clock, sends, delivered, all_failed, last, others>>

NextAdapter == AdapterCall

SpecAdapter == Init /\ [][NextAdapter]_vars

\* post_to_platform with the text the network hands back.  text is the
\* number of characters of the response body (a response or an HTTPError)
\* or of str(exc) (URLError, ValueError, TimeoutError): the text of a
\* ValueError holds the whole endpoint, "unknown url type: '...'".
TextLens == {0, 1, 300, 301, 400, 401, 520}

SendCodes == {199, 200, 204, 299, 300, 304, 404, 500}

Answers ==
    {[kind |-> k, code |-> c, text |-> n] :
        k \in {"response", "HTTPError"}, c \in SendCodes, n \in TextLens}
    \cup {[kind |-> k, code |-> 0, text |-> n] : k \in {"URLError", "uncaught"}, n \in TextLens}

\* text[:limit]
Truncated(n, limit) == IF n <= limit THEN n ELSE limit

\* Lines 86, 101 and 107: the number of characters of the message returned.
\* "ok" has two, "HTTPError 500: " fifteen.
MessageLen(net) ==
    CASE net.kind = "response"  -> IF net.text = 0 THEN 2 ELSE Truncated(net.text, 400)
      [] net.kind = "HTTPError" -> 15 + Truncated(net.text, 300)
      [] net.kind = "URLError"  -> net.text
      [] OTHER -> 0

\* One call in one process.
SendCall ==
    /\ call = NoCall
    /\ \E platform \in Platforms, env \in Envs, net \in Answers :
         call' = [platform |-> platform, env |-> env, net |-> net,
                  out |-> post_to_platform(platform, env, net),
                  message_len |-> MessageLen(net)]
    /\ UNCHANGED <<queue_file, status_file, clock, sends, delivered, all_failed, last, others>>

SpecSend == Init /\ [][SendCall]_vars

\* The publish pipeline with a feed whose items change title between two
\* fetches, and a queue file that can go missing between two runs.
MetaTitles == {"t1", "t2"}

MetaItems == [title : MetaTitles, url : Urls, source : {"src"}, date : Dates, file : {"file"}]

\* A dispatcher process, no history kept.
DispatchPlain ==
    /\ clock < MaxRuns
    /\ \E env \in SUBSET EndpointEnvNames : \E net \in DispatchNets :
         status_file' = RunMain(env, net).status
    /\ clock' = clock + 1
    /\ UNCHANGED <<queue_file, call, sends, delivered, all_failed, last, others>>

\* update_publish_queue with one item of the changing feed.
RequeueItem ==
    /\ \E item \in MetaItems :
         queue_file' = update_publish_queue(queue_file, <<item>>, clock)
    /\ UNCHANGED <<status_file, clock, sends, delivered, all_failed, last, call, others>>

\* automation/publish_queue.json is removed: the next run reads the default
\* [] of line 113.
QueueFileLost ==
    /\ queue_file # <<>>
    /\ queue_file' = <<>>
    /\ UNCHANGED <<status_file, clock, sends, delivered, all_failed, last, call, others>>

NextMeta == DispatchPlain \/ RequeueItem \/ QueueFileLost

SpecMeta == Init /\ [][NextMeta]_vars

----------------------------------------------------------------------------
(* fetch_douban.update_publish_queue on its own: a sequence of calls, time *)
(* passing between them.                                                   *)

MaxMerge == 2       \* new items handed to one call
MaxTicks == 1       \* seconds that pass in one behaviour

MergeItem(title, url, date) ==
    [title |-> title, url |-> url, source |-> "src", date |-> date, file |-> "file"]

\* The feed items of the model: a post that comes back under another title
\* and date, and a post dated on either side of it.
MergeItems ==
    {MergeItem("t1", "a", 1), MergeItem("t2", "a", 2),
     MergeItem("t1", "b", 1), MergeItem("t1", "b", 2)}

MergeLists == UNION {[1..n -> MergeItems] : n \in 0..MaxMerge}

ListUrls(items) == {items[i].url : i \in 1..Len(items)}

\* The stored title of url in queue, "" when the url is not queued.
TitleIn(queue, url) ==
    IF \E i \in 1..Len(queue) : queue[i].url = url
    THEN queue[CHOOSE i \in 1..Len(queue) : queue[i].url = url].title
    ELSE ""

\* One call of update_publish_queue(new_items), with its history: the new
\* items, the time, the time of the call before when that call had the same
\* new items (-1 otherwise), and the queued urls whose title the call changed.
MergeCall ==
    /\ \E new_items \in MergeLists :
         LET after == update_publish_queue(queue_file, new_items, clock)
         IN  /\ queue_file' = after
             /\ merged' = [op |-> "merge", new_items |-> new_items, at |-> clock,
                           last_same_at |->
                               IF merged.op = "merge" /\ merged.new_items = new_items
                               THEN merged.at ELSE -1,
                           retitled |->
                               {u \in QueueUrls(queue_file) :
                                   TitleIn(after, u) # TitleIn(queue_file, u)}]
    /\ UNCHANGED <<status_file, clock, sends, delivered, all_failed, last, call,
                   load, posters, cascade, fetch, ingest, details>>

\* A second passes (the timestamp of line 468 has seconds resolution).
Tick ==
    /\ clock < MaxTicks
    /\ clock' = clock + 1
    /\ UNCHANGED <<queue_file, status_file, sends, delivered, all_failed, last, call,
                   others>>

NextMerge == MergeCall \/ Tick

SpecMerge == Init /\ [][NextMerge]_vars

----------------------------------------------------------------------------
(* publish_dispatch.main from the files as they are on disk.               *)

\* What json.loads can return: a value with its Python type.  A dict has its
\* keys in iteration order and its fields; a str has its characters.
IntV == [type |-> "int"]
NullV == [type |-> "null"]
StrV(chars) == [type |-> "str", chars |-> chars]
ListV(elems) == [type |-> "list", elems |-> elems]
DictV(keys, fields) == [type |-> "dict", keys |-> keys, fields |-> fields]

\* A file on disk: missing, not parseable as JSON, or holding a JSON value.
Missing == [kind |-> "missing"]
Unparseable == [kind |-> "unparseable"]
Json(value) == [kind |-> "json", value |-> value]

\* Lines 30-37: the default for a missing file and for one json.loads (or
\* the read) rejects; whatever value was parsed otherwise, no shape test.
load_json(raw, default) ==
    IF raw.kind = "json" THEN raw.value ELSE default

ItemKeys == <<"title", "url", "source", "date", "file">>

\* A queue item as json.loads returns it.
ItemV(item) == DictV(ItemKeys, item)

\* A state file's items dictionary as json.loads returns it.
ItemsV(items) == DictV(<<>>, items)

\* A state file's top-level object.
StatusV(items_value) ==
    DictV(<<"updated_at", "items">>, [items |-> items_value, updated_at |-> 1])

\* The strings a loop over the keys of a dict or the characters of a str
\* goes through.
StrsOf(seq) == [i \in 1..Len(seq) |-> StrV(<<seq[i]>>)]

\* Line 121, "for item in queue": what the loop variable takes, or that the
\* value cannot be iterated (TypeError).
Iterable(v) == v.type \in {"list", "dict", "str"}

Iterate(v) ==
    CASE v.type = "list" -> v.elems
      [] v.type = "dict" -> StrsOf(v.keys)
      [] v.type = "str"  -> StrsOf(v.chars)

\* Line 122, item.get: only a dict has the method (AttributeError otherwise).
HasGet(v) == v.type = "dict"

\* Line 122: str(item.get("url") or "").strip() of a queue item.
UrlOf(v) == IF "url" \in DOMAIN v.fields THEN v.fields.url ELSE ""

\* The longest prefix of elems whose elements all have .get.
RECURSIVE ObjectPrefix(_, _)
ObjectPrefix(elems, i) ==
    IF i > Len(elems) \/ ~HasGet(elems[i]) THEN <<>>
    ELSE <<elems[i].fields>> \o ObjectPrefix(elems, i + 1)

\* Line 172, len(items).
HasLen(v) == v.type \in {"list", "dict", "str"}

\* Line 115: the items the run works on.
ItemsOf(status) ==
    IF status.type = "dict"
    THEN IF "items" \in DOMAIN status.fields THEN status.fields.items
         ELSE ItemsV(EmptyDict)
    ELSE ItemsV(EmptyDict)

Outcome(raised, cause, written, items) ==
    [raised |-> raised, cause |-> cause, written |-> written, items |-> items]

\* The whole of main on raw files: whether the run raised and at what, whether
\* it wrote the state file, and the items it ended with.  The loop of line
\* 121 runs over the elements in order: the items before the first element
\* without .get are processed as usual (lines 122-169); a url that is not
\* empty makes lines 126-127 test and assign items[url], which raises
\* TypeError when items is not a dict; with no such url the run reaches line
\* 172, whose len(items) raises TypeError when items has no length.
main_on_files(queue_raw, status_raw, env, net, now) ==
    LET queue  == load_json(queue_raw, ListV(<<>>))
        status == load_json(status_raw, StatusV(ItemsV(EmptyDict)))
        items  == ItemsOf(status)
    IN  IF ~Iterable(queue) THEN Outcome(TRUE, "queue", FALSE, items)
        ELSE
        LET elems  == Iterate(queue)
            prefix == ObjectPrefix(elems, 1)
            cut    == Len(prefix) < Len(elems)
        IN  IF items.type # "dict"
            THEN IF \E i \in 1..Len(prefix) : prefix[i].url # ""
                 THEN Outcome(TRUE, "items", FALSE, items)
                 ELSE IF cut THEN Outcome(TRUE, "element", FALSE, items)
                 ELSE IF ~HasLen(items) THEN Outcome(TRUE, "items", FALSE, items)
                 ELSE Outcome(FALSE, "", FALSE, items)
            ELSE
            LET r == main(prefix, [items |-> items.fields, updated_at |-> 0],
                          env, net, now)
            IN  IF r.run.raised THEN Outcome(TRUE, "adapter", FALSE, ItemsV(r.run.items))
                ELSE IF cut THEN Outcome(TRUE, "element", FALSE, ItemsV(r.run.items))
                ELSE Outcome(FALSE, "", r.written, ItemsV(r.run.items))

\* The queue files of the model: well-formed ones, and one of each wrong
\* shape.
AnItem == [title |-> "t1", url |-> "a", source |-> "src", date |-> 1, file |-> "file"]

QueueFiles ==
    {Missing, Unparseable}
    \cup {Json(v) : v \in {ListV(<<>>), ListV(<<ItemV(AnItem)>>),
                            ListV(<<IntV>>), ListV(<<ItemV(AnItem), StrV(<<"x">>)>>),
                            ListV(<<NullV, ItemV(AnItem)>>),
                            ItemV(AnItem), DictV(<<>>, EmptyDict),
                            IntV, NullV, StrV(<<>>), StrV(<<"x">>)}}

\* An entry main has written, with one failed slot.
AnEntry ==
    [NewEntry(AnItem, 1) EXCEPT !.platforms =
        Put(EmptyDict, "baijiahao",
            RecordResult(NewSlot, [status |-> "failed", message |-> "HTTP 500",
                                   http_code |-> {500}], 1))]

\* The state files of the model, likewise.
StatusFiles ==
    {Missing, Unparseable}
    \cup {Json(v) : v \in {StatusV(ItemsV(EmptyDict)),
                            StatusV(ItemsV(Put(EmptyDict, "a", AnEntry))),
                            DictV(<<>>, EmptyDict),
                            StatusV(ListV(<<>>)), StatusV(NullV), StatusV(IntV),
                            ListV(<<>>), IntV, NullV, StrV(<<"x">>)}}

\* The same outcome for every slot.
Uniform(outcome) == [s \in Slots |-> outcome]

\* One dispatcher process started on some pair of files.
LoadRun ==
    /\ load.op = "none"
    /\ \E queue_raw \in QueueFiles, status_raw \in StatusFiles,
          env \in SUBSET EndpointEnvNames, outcome \in DispatchNet :
         load' = [op |-> "run", queue |-> queue_raw, status |-> status_raw,
                  env |-> env, net |-> outcome,
                  out |-> main_on_files(queue_raw, status_raw, env,
                                        Uniform(outcome), clock + 1)]
    /\ clock' = clock + 1
    /\ UNCHANGED <<queue_file, status_file, sends, delivered, all_failed, last, call,
                   merged, posters, cascade, fetch, ingest, details>>

NextLoad == LoadRun

SpecLoad == Init /\ [][NextLoad]_vars

----------------------------------------------------------------------------
(* The poster cascade of fetch_douban: ensure_local_poster.                *)
(*                                                                         *)
(* A locator is the url string in three parts: Loc(h, stem, ext) with h in *)
(* 0..9 is "https://img<h>.doubanio.com/<stem><ext>", with h = -1 it is    *)
(* "https://cdn.example/<stem><ext>"; the empty string is NoLocator.       *)

Loc(host, stem, ext) == [host |-> host, stem |-> stem, ext |-> ext]

NoLocator == Loc(-1, "", "")

WithExt(url, ext) == [url EXCEPT !.ext = ext]

WithHost(url, host) == [url EXCEPT !.host = host]

\* Line 65: the url matches (https://img)(\d)(\.doubanio\.com/.+).
MatchesDoubanHost(url) == url.host \in 0..9

\* Line 67: range(1, 10).
HostDigits == 1..9

\* Lines 67-71: the candidates of the hosts from i on.
RECURSIVE HostRewrites(_, _)
HostRewrites(url, i) ==
    IF i \notin HostDigits THEN <<>>
    ELSE <<WithHost(url, i)>>
         \o (IF url.ext = ".webp" THEN <<WithExt(WithHost(url, i), ".jpg")>> ELSE <<>>)
         \o HostRewrites(url, i + 1)

\* The loop of lines 73-78 and of lines 358-362: the items in order, each
\* kept the first time it is met and when it is not in seen already.
RECURSIVE Dedup(_, _, _)
Dedup(items, i, seen) ==
    IF i > Len(items) THEN <<>>
    ELSE IF items[i] \in seen THEN Dedup(items, i + 1, seen)
    ELSE <<items[i]>> \o Dedup(items, i + 1, seen \cup {items[i]})

\* Lines 57-79.
replacement_candidates(url) ==
    LET ext_rewrites ==
            IF url.ext = ".webp"
            THEN <<WithExt(url, ".jpg"), WithExt(url, ".jpeg"), WithExt(url, ".png")>>
            ELSE <<>>
        host_rewrites == IF MatchesDoubanHost(url) THEN HostRewrites(url, 1) ELSE <<>>
    IN  Dedup(ext_rewrites \o host_rewrites, 1, {url})

\* What urlopen and the read of the body can do for one image request.
FetchResponse(code, content_type, body) ==
    [kind |-> "response", code |-> code, content_type |-> content_type, body |-> body]

FetchHttpError == [kind |-> "http_error"]       \* HTTPError: a 4xx or 5xx answer
FetchUrlError == [kind |-> "url_error"]         \* URLError: no connection, timeout at connect
FetchReadTimeout == [kind |-> "read_timeout"]   \* socket.timeout (TimeoutError) after connect

OkJpeg == FetchResponse(200, "image/jpeg", TRUE)
OkPng == FetchResponse(200, "image/png", TRUE)
EmptyBody == FetchResponse(200, "image/jpeg", FALSE)
NotImage == FetchResponse(200, "text/html", TRUE)
EmptyNoType == FetchResponse(204, "", FALSE)

\* Line 339: "image" in content_type.
SaysImage(content_type) == content_type \in {"image/jpeg", "image/png"}

NoBytes == [raised |-> FALSE, data |-> FALSE, content_type |-> ""]

\* fetch_image_bytes without the test of lines 342-343.
fetch_image_bytes_NoEmptyTest(outcome) ==
    CASE outcome.kind = "response" ->
            IF ~(200 <= outcome.code /\ outcome.code < 400) THEN NoBytes
            ELSE IF outcome.content_type # "" /\ ~SaysImage(outcome.content_type)
                 THEN NoBytes
            ELSE [raised |-> FALSE, data |-> TRUE, content_type |-> outcome.content_type]
      [] outcome.kind \in {"http_error", "url_error"} -> NoBytes
      [] OTHER -> [raised |-> TRUE, data |-> FALSE, content_type |-> ""]

\* Lines 326-346: whether the call raised, whether it returned bytes, and the
\* content type it returned.  Line 345 names HTTPError, URLError and
\* ValueError; any other exception leaves the function.
fetch_image_bytes(outcome) ==
    CASE outcome.kind = "response" ->
            IF ~(200 <= outcome.code /\ outcome.code < 400) THEN NoBytes
            ELSE IF outcome.content_type # "" /\ ~SaysImage(outcome.content_type)
                 THEN NoBytes
            ELSE IF ~outcome.body THEN NoBytes
            ELSE [raised |-> FALSE, data |-> TRUE, content_type |-> outcome.content_type]
      [] outcome.kind \in {"http_error", "url_error"} -> NoBytes
      [] OTHER -> [raised |-> TRUE, data |-> FALSE, content_type |-> ""]

\* Lines 310-323.  The extensions of line 312 are looked for anywhere in the
\* url; in the locators of the model only the last part can hold one.
guess_image_ext(url, content_type) ==
    IF url.ext \in {".jpg", ".jpeg", ".png", ".webp", ".gif", ".avif"} THEN url.ext
    ELSE IF content_type = "image/png" THEN ".png"
    ELSE ".jpg"

\* Lines 369-372: the file name, the first 20 hex digits of the sha1 of the
\* candidate standing as the candidate itself.
PosterFile(candidate, content_type) ==
    [key |-> candidate, ext |-> guess_image_ext(candidate, content_type)]

\* Line 377: the empty string.
NoReference == [key |-> NoLocator, ext |-> ""]

\* AllCandidates with the web search consulted first.
AllCandidates_SearchFirst(original_url, page, search) ==
    search
    \o (IF original_url # NoLocator
        THEN <<original_url>> \o replacement_candidates(original_url) ELSE <<>>)
    \o page

\* Lines 350-355: page and search are what candidates_from_source_page and
\* candidates_from_web_search returned.
AllCandidates(original_url, page, search) ==
    (IF original_url # NoLocator
     THEN <<original_url>> \o replacement_candidates(original_url) ELSE <<>>)
    \o page \o search

\* OrderedCandidates without the seen set of lines 357-362.
OrderedCandidates_NoSeen(candidates) ==
    SelectSeq(candidates, LAMBDA item : item # NoLocator)

\* Lines 357-362.
OrderedCandidates(candidates) == Dedup(candidates, 1, {NoLocator})

\* What the network answers for url: net gives the answer of the locators
\* in its domain, every other locator answers 404.
Answer(net, url) == IF url \in DOMAIN net THEN net[url] ELSE FetchHttpError

\* TryCandidates going on after a candidate returned bytes: the last such
\* candidate is the one stored.
RECURSIVE TryCandidates_KeepGoing(_, _, _, _)
TryCandidates_KeepGoing(ordered, i, net, fetched) ==
    IF i > Len(ordered)
    THEN [raised |-> FALSE, fetched |-> fetched, hit |-> 0, content_type |-> ""]
    ELSE LET got  == fetch_image_bytes(Answer(net, ordered[i]))
             rest == TryCandidates_KeepGoing(ordered, i + 1, net,
                                             Append(fetched, ordered[i]))
         IN  IF got.raised
             THEN [raised |-> TRUE, fetched |-> Append(fetched, ordered[i]),
                   hit |-> 0, content_type |-> ""]
             ELSE IF got.data /\ ~rest.raised /\ rest.hit = 0
             THEN [rest EXCEPT !.hit = i, !.content_type = got.content_type]
             ELSE rest

\* Lines 364-367: the candidates fetched, in order, and the index of the one
\* whose bytes are stored (0: none).
RECURSIVE TryCandidates(_, _, _, _)
TryCandidates(ordered, i, net, fetched) ==
    IF i > Len(ordered)
    THEN [raised |-> FALSE, fetched |-> fetched, hit |-> 0, content_type |-> ""]
    ELSE LET got == fetch_image_bytes(Answer(net, ordered[i]))
         IN  IF got.raised
             THEN [raised |-> TRUE, fetched |-> Append(fetched, ordered[i]),
                   hit |-> 0, content_type |-> ""]
             ELSE IF got.data
             THEN [raised |-> FALSE, fetched |-> Append(fetched, ordered[i]),
                   hit |-> i, content_type |-> got.content_type]
             ELSE TryCandidates(ordered, i + 1, net, Append(fetched, ordered[i]))

\* Lines 349-377 with the poster directory holding the files of stored: the
\* list tried, what was fetched, the reference returned, the files written.
ensure_local_poster(original_url, page, search, net, stored) ==
    LET ordered == OrderedCandidates(AllCandidates(original_url, page, search))
        try     == TryCandidates(ordered, 1, net, <<>>)
        file    == PosterFile(ordered[try.hit], try.content_type)
    IN  [ordered |-> ordered,
         fetched |-> try.fetched,
         raised  |-> try.raised,
         result  |-> IF try.hit = 0 THEN NoReference ELSE file,
         wrote   |-> IF try.hit = 0 \/ file \in stored THEN {} ELSE {file}]

\* The locators of the model: a .webp seed on a numbered host, its first
\* rewrite, a locator only the source page gives (no extension in it) and one
\* only the web search gives.
SeedWebp == Loc(1, "p", ".webp")
SeedAsJpg == Loc(1, "p", ".jpg")
PageOnly == Loc(-1, "page", "")
SearchOnly == Loc(-1, "search", ".jpg")

Seeds == {NoLocator, SeedWebp}

\* What the two scraping strategies return: nothing, or the seed again and
\* a locator of their own, the search also what the page gave.
Scrapes == {<<<<>>, <<>>>>, <<<<SeedWebp, PageOnly>>, <<PageOnly, SearchOnly>>>>}

\* The locators whose answer varies; every other one answers 404.
Pool == {SeedWebp, SeedAsJpg, PageOnly}

FetchOutcomes == {FetchHttpError, FetchUrlError, FetchReadTimeout,
                  OkJpeg, OkPng, EmptyBody, EmptyNoType, NotImage}

\* The answers of the network to one cascade: at most one locator of the
\* pool answers otherwise than with 404 or a JPEG.
PoolNets ==
    {f \in [Pool -> FetchOutcomes] :
        Cardinality({l \in Pool : f[l] \notin {FetchHttpError, OkJpeg}}) <= 1}

MaxCascades == 2    \* calls of ensure_local_poster in one behaviour

\* One call of ensure_local_poster (from fix_first_image_src, line 383, or
\* repair_missing_local_poster_ref, line 404).
EnsureLocalPoster ==
    /\ cascade.n < MaxCascades
    /\ \E original_url \in Seeds, scrape \in Scrapes, f \in PoolNets :
         LET r == ensure_local_poster(original_url, scrape[1], scrape[2],
                                      f, posters)
         IN  /\ posters' = posters \cup r.wrote
             /\ cascade' = [op |-> "cascade", n |-> cascade.n + 1,
                            original_url |-> original_url,
                            page |-> scrape[1], search |-> scrape[2], net |-> f,
                            before |-> posters, out |-> r]
    /\ UNCHANGED <<queue_file, status_file, clock, sends, delivered, all_failed, last,
                   call, load, merged, fetch, ingest, details>>

NextPoster == EnsureLocalPoster

SpecPoster == Init /\ [][NextPoster]_vars

----------------------------------------------------------------------------
(* fetch_image_bytes on its own, the acceptance decision of the cascade    *)
(* (line 366, "if not img_bytes"), for every status, content type and body *)
(* of an answer.  image_url_ok (lines 35-54), the function that sends a    *)
(* HEAD request, has no caller: what a HEAD probe of the same url would    *)
(* report is drawn with the answer and reaches no code.                    *)

StatusCodes == {199, 200, 204, 299, 304, 399, 400}

ContentTypes == {"", "image/jpeg", "image/png", "text/html"}

AnyAnswers ==
    {FetchResponse(code, content_type, body) :
        code \in StatusCodes, content_type \in ContentTypes, body \in BOOLEAN}
    \cup {FetchHttpError, FetchUrlError, FetchReadTimeout}

\* One call of fetch_image_bytes.
FetchCall ==
    /\ \E outcome \in AnyAnswers, head_ok \in BOOLEAN :
         fetch' = [op |-> "fetch", outcome |-> outcome, head_ok |-> head_ok,
                   out |-> fetch_image_bytes(outcome)]
    /\ UNCHANGED <<queue_file, status_file, clock, sends, delivered, all_failed, last,
                   call, load, merged, posters, cascade, ingest, details>>

SpecFetch == Init /\ [][FetchCall]_vars

----------------------------------------------------------------------------
(* fetch_douban.main, the ingest run.                                      *)
(*                                                                         *)
(* A feed either returns no entries or its one entry; the third feed       *)
(* carries the film of the second.  A film stands for its guid, link and   *)
(* title, and for the post url of the file written for it.  content/posts  *)
(* is the set of films with a post file (history field posts).             *)

RSS_SOURCES == <<"playing", "coming", "weekly">>

EntryOf == <<"a", "b", "b">>

Films == {"a", "b"}

\* What the work on one new entry comes to: the post file is written (with
\* or without details and poster), or an exception leaves
\* fetch_douban_details (line 548) or fix_first_image_src (line 574), whose
\* fetch functions catch HTTPError, URLError and ValueError only.
EntryWork == {"written", "details_raised", "poster_raised"}

\* Lines 603-609.
PublishItem(film, source_name) ==
    [title |-> film, url |-> film, source |-> source_name, date |-> 1, file |-> film]

IngestState(posts) ==
    [posts |-> posts, new_items |-> <<>>, failed_feeds |-> 0, uncaught |-> FALSE]

\* Lines 518-612: one iteration of the loop over RSS_SOURCES.
DoFeed(st, i, has_entries, work) ==
    IF st.uncaught THEN st
    ELSE IF ~has_entries[i] THEN [st EXCEPT !.failed_feeds = @ + 1]
    ELSE IF EntryOf[i] \in st.posts THEN st
    ELSE IF work[EntryOf[i]] # "written" THEN [st EXCEPT !.uncaught = TRUE]
    ELSE [st EXCEPT !.posts = @ \cup {EntryOf[i]},
                    !.new_items = Append(@, PublishItem(EntryOf[i], RSS_SOURCES[i]))]

RECURSIVE DoFeeds(_, _, _, _)
DoFeeds(st, i, has_entries, work) ==
    IF i > Len(RSS_SOURCES) THEN st
    ELSE DoFeeds(DoFeed(st, i, has_entries, work), i + 1, has_entries, work)

\* Line 625.
AllFailed(st) == st.failed_feeds = Len(RSS_SOURCES)

\* The whole of main (lines 506-626): the posts on disk and the queue file
\* afterwards, and how the run ended.  submit_urls_to_baidu catches every
\* exception (line 503), so what the push does changes nothing.
ingest_main(posts, queue, has_entries, work, now) ==
    LET st == DoFeeds(IngestState(posts), 1, has_entries, work)
    IN  [posts    |-> st.posts,
         queue    |-> IF st.uncaught \/ st.new_items = <<>> THEN queue
                      ELSE update_publish_queue(queue, st.new_items, now),
         new      |-> Len(st.new_items),
         uncaught |-> st.uncaught,
         fatal    |-> ~st.uncaught /\ AllFailed(st)]

MaxIngests == 2     \* ingest runs in one behaviour

\* One process running fetch_douban.main.
IngestRun ==
    /\ ingest.n < MaxIngests
    /\ \E has_entries \in [1..Len(RSS_SOURCES) -> BOOLEAN], work \in [Films -> EntryWork],
          push_ok \in BOOLEAN :
         LET r == ingest_main(ingest.posts, queue_file, has_entries, work, clock)
         IN  /\ queue_file' = r.queue
             /\ ingest' = [op |-> "run", n |-> ingest.n + 1, posts |-> r.posts,
                           has_entries |-> has_entries, work |-> work,
                           push_ok |-> push_ok, queue_before |-> queue_file,
                           new |-> r.new, uncaught |-> r.uncaught, fatal |-> r.fatal]
    /\ UNCHANGED <<status_file, clock, sends, delivered, all_failed, last, call,
                   load, merged, posters, cascade, fetch, details>>

NextIngest == IngestRun \/ Tick

SpecIngest == Init /\ [][NextIngest]_vars

----------------------------------------------------------------------------
(* fetch_douban.fetch_douban_details.                                      *)
(*                                                                         *)
(* A text is "" or names the source it came from.  An answer is what one   *)
(* fetch came to: "ok" with the cast and the summary the source holds      *)
(* (either may be empty), "failed" ({} from fetch_json, "" from fetch_text *)
(* after their retries), or "raised": an exception outside the except      *)
(* clauses of lines 95 and 116 (a read timeout, a dropped connection).     *)

AnswerOf(source) ==
    {[kind |-> "ok", cast |-> c, summary |-> t] : c \in {"", source}, t \in {"", source}}
    \cup {[kind |-> k, cast |-> "", summary |-> ""] : k \in {"failed", "raised"}}

\* source_link: none, one without /subject/<digits>, one with.
SourceLinks == {"", "no_sid", "sid"}

Text(answer, field) == IF answer.kind = "ok" THEN answer[field] ELSE ""

Either(text, later) == IF text = "" THEN later ELSE text

DetailsRaised(fetched) == [raised |-> TRUE, cast |-> "", summary |-> "", fetched |-> fetched]

DetailsReturned(cast, summary, fetched) ==
    [raised |-> FALSE, cast |-> cast, summary |-> summary, fetched |-> fetched]

\* Lines 243-251, with the fields the two APIs resolved.
ScrapePage(cast, summary, fetched, page) ==
    LET fetched1 == Append(fetched, "page")
    IN  IF page.kind = "raised" THEN DetailsRaised(fetched1)
        ELSE IF page.kind = "failed" THEN DetailsReturned(cast, summary, fetched1)
        ELSE DetailsReturned(Either(cast, page.cast), Either(summary, page.summary), fetched1)

\* Lines 208-251.
fetch_douban_details(source_link, detail, abstract, page) ==
    IF source_link = "" THEN DetailsReturned("", "", <<>>)
    ELSE IF source_link # "sid" THEN ScrapePage("", "", <<>>, page)
    ELSE IF detail.kind = "raised" THEN DetailsRaised(<<"detail">>)
    ELSE
    LET cast1    == Text(detail, "cast")
        summary1 == Text(detail, "summary")
    IN  IF cast1 # "" /\ summary1 # ""
        THEN DetailsReturned(cast1, summary1, <<"detail">>)
        ELSE IF abstract.kind = "raised" THEN DetailsRaised(<<"detail", "abstract">>)
        ELSE
        LET cast2    == Either(cast1, Text(abstract, "cast"))
            summary2 == Either(summary1, Text(abstract, "summary"))
        IN  IF cast2 # "" /\ summary2 # ""
            THEN DetailsReturned(cast2, summary2, <<"detail", "abstract">>)
            ELSE ScrapePage(cast2, summary2, <<"detail", "abstract">>, page)

\* One call of fetch_douban_details.
DetailsCall ==
    /\ \E source_link \in SourceLinks, detail \in AnswerOf("detail"),
          abstract \in AnswerOf("abstract"), page \in AnswerOf("page") :
         details' = [op |-> "details", source_link |-> source_link, detail |-> detail,
                     abstract |-> abstract, page |-> page,
                     out |-> fetch_douban_details(source_link, detail, abstract, page)]
    /\ UNCHANGED <<queue_file, status_file, clock, sends, delivered, all_failed, last,
                   call, load, merged, posters, cascade, fetch, ingest>>

SpecDetails == Init /\ [][DetailsCall]_vars

----------------------------------------------------------------------------
(* Reading the state file.                                                 *)

HasSlot(file, s) ==
    /\ s[1] \in DOMAIN file.items
    /\ s[2] \in DOMAIN file.items[s[1]].platforms

SlotOf(file, s) == file.items[s[1]].platforms[s[2]]

\* The step is a dispatcher process (no other step reads the clock forward).
DispatchStep == clock' = clock + 1

\* The slots of the queue's items, the slots a run goes through.
QueueSlots == QueueUrls(queue_file) \X Platforms

\* A slot no run attempts again: successful, or at the attempt cap.
Terminal(slot) == slot.status = "success" \/ slot.attempts = MAX_ATTEMPTS

\* The slot is one the run has to attempt: not yet created, or not terminal.
Pending(file, s) == HasSlot(file, s) => ~Terminal(SlotOf(file, s))

----------------------------------------------------------------------------
(* C1.  Once the persisted status of a slot is "success", no later step    *)
(* changes any of its fields and no later dispatcher run invokes the       *)
(* adapter for it.                                                         *)

SuccessIsAbsorbing ==
    [][\A s \in Slots :
          (HasSlot(status_file, s) /\ SlotOf(status_file, s).status = "success")
          => /\ HasSlot(status_file', s)
             /\ SlotOf(status_file', s) = SlotOf(status_file, s)
             /\ (DispatchStep => s \notin last'.called)]_vars

\* A slot that succeeded in an earlier run, after a later run that invoked
\* the adapter for another slot of the same queue.
SuccessSkippedWitness ==
    \E s \in Slots :
        /\ HasSlot(status_file, s)
        /\ SlotOf(status_file, s).status = "success"
        /\ SlotOf(status_file, s).last_attempt_at < clock
        /\ last.op = "dispatch"
        /\ last.called # {}
        /\ s \notin last.called

----------------------------------------------------------------------------
(* C2.  Starting from a missing state file, every slot has                 *)
(* 0 <= attempts <= MAX_ATTEMPTS in every reachable state, and a slot at   *)
(* the cap whose status is not "success" is left alone by every later      *)
(* step: no field changes and no dispatcher run invokes the adapter for    *)
(* it.                                                                     *)

AttemptsBounded ==
    /\ [](\A s \in Slots :
            HasSlot(status_file, s)
            => SlotOf(status_file, s).attempts \in 0..MAX_ATTEMPTS)
    /\ [][\A s \in Slots :
            (/\ HasSlot(status_file, s)
             /\ SlotOf(status_file, s).attempts = MAX_ATTEMPTS
             /\ SlotOf(status_file, s).status # "success")
            => /\ HasSlot(status_file', s)
               /\ SlotOf(status_file', s) = SlotOf(status_file, s)
               /\ (DispatchStep => s \notin last'.called)]_vars

\* A slot at the cap and not successful, after a later run went past it.
CappedSkippedWitness ==
    \E s \in Slots :
        /\ HasSlot(status_file, s)
        /\ SlotOf(status_file, s).attempts = MAX_ATTEMPTS
        /\ SlotOf(status_file, s).status # "success"
        /\ SlotOf(status_file, s).last_attempt_at < clock
        /\ last.op = "dispatch"
        /\ s \notin last.called

----------------------------------------------------------------------------
(* C3.  The persisted status of a slot changes only along                  *)
(* queued -> success, queued -> failed, failed -> failed and               *)
(* failed -> success: never from failed back to queued, never out of       *)
(* success.                                                                *)

AllowedTransition(old, new) ==
    \/ old = new
    \/ old = "queued" /\ new \in {"success", "failed"}
    \/ old = "failed" /\ new \in {"failed", "success"}

StatusTransitions ==
    [][\A s \in Slots :
          HasSlot(status_file, s)
          => /\ HasSlot(status_file', s)
             /\ AllowedTransition(SlotOf(status_file, s).status,
                                  SlotOf(status_file', s).status)]_vars

----------------------------------------------------------------------------
(* C4.  A dispatcher run in which a platform has no destination (neither   *)
(* its endpoint variable nor PUBLISH_GATEWAY_BASE_URL) leaves each pending *)
(* slot of that platform "queued" with the explanatory message and with    *)
(* its attempts counter unchanged (0 for a slot the run created).          *)

UnconfiguredKeepsAttempts ==
    [][DispatchStep =>
        \A s \in QueueSlots :
          (s[2] \in last'.unconfigured /\ Pending(status_file, s) /\ ~last'.raised)
          => /\ HasSlot(status_file', s)
             /\ SlotOf(status_file', s).status = "queued"
             /\ SlotOf(status_file', s).message = MissingEndpointMsg
             /\ SlotOf(status_file', s).attempts =
                  IF HasSlot(status_file, s) THEN SlotOf(status_file, s).attempts ELSE 0]_vars

----------------------------------------------------------------------------
(* C5.  post_to_platform and the configuration it reads.                   *)

EndpointPresent(platform, env) ==
    PLATFORM_CONFIG[platform].endpoint_env \in env \/ GATEWAY_ENV \in env

TokenPresent(platform, env) == PLATFORM_CONFIG[platform].token_env \in env

Deferred(out) == ~out.raised /\ ~out.sent /\ out.result.status = "queued"

----------------------------------------------------------------------------
(* C6.  Re-running the dispatcher over a queue all of whose items it has   *)
(* already seen.                                                           *)

AllTracked == \A s \in QueueSlots : HasSlot(status_file, s)

AllTerminal == \A s \in QueueSlots : HasSlot(status_file, s) /\ Terminal(SlotOf(status_file, s))

\* C6 as claimed: the re-run is a no-op whatever statuses the previous run
\* left: the state file is not rewritten and no attempts counter moves.
RerunIsNoOp ==
    [][(DispatchStep /\ AllTracked)
       => (status_file' = status_file /\ ~last'.written)]_vars

\* C6 as amended: the re-run is a no-op (state file not rewritten, no
\* adapter invocation, no counter moved) exactly when every slot of the
\* queue is successful or at the cap; otherwise it invokes the adapter for
\* the pending slots and, when it runs to its end, rewrites the state file
\* with the attempts of each pending slot incremented by one.
RerunNoOpIffTerminal ==
    [][(DispatchStep /\ AllTracked)
       => IF AllTerminal
          THEN status_file' = status_file /\ ~last'.written /\ last'.called = {}
          ELSE /\ last'.called # {}
               /\ ~last'.raised
                  => /\ last'.written
                     /\ \A s \in QueueSlots :
                          ~Terminal(SlotOf(status_file, s))
                          => SlotOf(status_file', s).attempts
                               = SlotOf(status_file, s).attempts + 1]_vars

\* After a re-run that found every slot of a non-empty queue terminal and
\* left the state file as the previous run wrote it.
TerminalRerunWitness ==
    /\ QueueSlots # {}
    /\ AllTerminal
    /\ last.op = "dispatch"
    /\ ~last.written
    /\ last.called = {}
    /\ status_file.updated_at < clock

----------------------------------------------------------------------------
(* C7.  A dispatcher run writes the state file, changing updated_at, if    *)
(* and only if during the run a slot was created or had a field changed;   *)
(* when none was, the state file is left as it was.                        *)

WritesIffSlotChanged ==
    [][DispatchStep
       => /\ last'.written <=> last'.dirty
          /\ last'.written => status_file'.updated_at # status_file.updated_at
          /\ ~last'.dirty => status_file' = status_file]_vars

----------------------------------------------------------------------------
(* C8.  While every adapter invocation so far has returned "failed", a     *)
(* slot is "failed" with attempts = min(k, MAX_ATTEMPTS), k being the      *)
(* number of runs since the run that first saw its url (that run           *)
(* included), and every url queued before the last run has its slots.      *)

Min(a, b) == IF a < b THEN a ELSE b

RunsSince(u) == clock - status_file.items[u].created_at + 1

AlwaysFailingScenario ==
    all_failed =>
        /\ \A i \in 1..Len(queue_file) :
             queue_file[i].queued_at < clock
             => \A p \in Platforms : HasSlot(status_file, <<queue_file[i].url, p>>)
        /\ \A s \in Slots :
             HasSlot(status_file, s)
             => /\ SlotOf(status_file, s).status = "failed"
                /\ SlotOf(status_file, s).attempts = Min(RunsSince(s[1]), MAX_ATTEMPTS)

\* More runs than the cap, all failing: the counter stands at the cap.
FailedPastCapWitness ==
    /\ all_failed
    /\ \E s \in Slots :
         /\ HasSlot(status_file, s)
         /\ RunsSince(s[1]) > MAX_ATTEMPTS
         /\ SlotOf(status_file, s).attempts = MAX_ATTEMPTS
         /\ SlotOf(status_file, s).status = "failed"

----------------------------------------------------------------------------
(* C9.  In every dispatcher run each pending slot of the queue gets        *)
(* exactly one adapter invocation and no other slot gets one, a slot that  *)
(* was not invoked keeps its fields, and the run does not end by raising.  *)

FailureIsolation ==
    [][DispatchStep
       => /\ ~last'.raised
          /\ last'.called = {s \in QueueSlots : Pending(status_file, s)}
          /\ \A s \in Slots \ last'.called :
               HasSlot(status_file, s)
               => HasSlot(status_file', s)
                  /\ SlotOf(status_file', s) = SlotOf(status_file, s)]_vars

----------------------------------------------------------------------------
(* C10.  Over all dispatcher processes, those that ended before writing    *)
(* the state file included, no slot is sent more than MAX_ATTEMPTS times,  *)
(* and a slot whose request was answered 2xx is never sent again.          *)

BoundedSendsAcrossRestarts ==
    /\ [](\A s \in Slots : sends[s] <= MAX_ATTEMPTS)
    /\ [][\A s \in delivered : sends'[s] = sends[s]]_vars

----------------------------------------------------------------------------
(* C11.  The dispatch state is append-only: a url that has an entry keeps  *)
(* it across every step, whether or not the url is still in the queue; the *)
(* entry's created_at, title, source, date and file never change, whatever *)
(* the queue item says now; and no platform slot is ever removed from it.  *)

EntryMetadata == {"title", "source", "date", "file", "created_at"}

----------------------------------------------------------------------------
(* C12.  A dispatcher run never fails because of the persisted files: when *)
(* the state file or the queue file is missing, is not parseable, or holds *)
(* JSON of the wrong shape (a state that is not an object, a queue that is *)
(* not a list, a queue element that is not an object), the run does what   *)
(* it does on the empty default in that file's place, and does not raise   *)
(* because of the file.                                                    *)

WellShapedQueue(raw) ==
    /\ raw.kind = "json"
    /\ raw.value.type = "list"
    /\ \A i \in 1..Len(raw.value.elems) : raw.value.elems[i].type = "dict"

WellShapedStatus(raw) ==
    /\ raw.kind = "json"
    /\ raw.value.type = "dict"
    /\ ("items" \in DOMAIN raw.value.fields => raw.value.fields.items.type = "dict")

\* The file the claim says the run works on.
AsDefault(raw, well_shaped) == IF well_shaped THEN raw ELSE Missing

FileCauses == {"queue", "element", "items"}

MalformedFilesTolerated ==
    load.op = "run"
    => /\ load.out.cause \notin FileCauses
       /\ load.out = main_on_files(AsDefault(load.queue, WellShapedQueue(load.queue)),
                                   AsDefault(load.status, WellShapedStatus(load.status)),
                                   load.env, Uniform(load.net), clock)

----------------------------------------------------------------------------
(* The step is a call of update_publish_queue (the clock stands still).    *)

MergeStep == clock' = clock

\* The queue with the timestamps of line 468 left out.
Unstamped(queue) == [i \in 1..Len(queue) |-> [queue[i] EXCEPT !.queued_at = 0]]

----------------------------------------------------------------------------
(* C13.  The queue merge is idempotent: a call with no new item leaves the *)
(* queue file as it was, and a call with the new items N of the call       *)
(* before leaves the queue file equal, entry for entry and field for       *)
(* field, to what the call before wrote.                                   *)

----------------------------------------------------------------------------
(* C14.  After any sequence of merges the queue file holds at most one     *)
(* entry per url; and for every url among the new items of a merge, the    *)
(* single entry of that url afterwards is the one built from the last new  *)
(* item with that url: its title and other fields replace whatever was     *)
(* queued for the url before.                                              *)

\* The last of the new items with that url.
LastWith(items, url) ==
    items[CHOOSE i \in 1..Len(items) :
            /\ items[i].url = url
            /\ \A j \in (i + 1)..Len(items) : items[j].url # url]

OneEntryPerUrlLaterWins ==
    /\ [](\A i, j \in 1..Len(queue_file) :
            queue_file[i].url = queue_file[j].url => i = j)
    /\ [][MergeStep
          => \A u \in ListUrls(merged'.new_items) :
               \E i \in 1..Len(queue_file') :
                   /\ queue_file'[i].url = u
                   /\ queue_file'[i].title = LastWith(merged'.new_items, u).title
                   /\ queue_file'[i].source = LastWith(merged'.new_items, u).source
                   /\ queue_file'[i].date = LastWith(merged'.new_items, u).date
                   /\ queue_file'[i].file = LastWith(merged'.new_items, u).file
                   /\ queue_file'[i].state = "pending"
                   /\ queue_file'[i].queued_at = clock]_vars

\* A merge of one item has replaced the title queued for its url by an
\* earlier merge.
RetitledQueueWitness ==
    /\ merged.op = "merge"
    /\ Len(merged.new_items) = 1
    /\ merged.retitled = ListUrls(merged.new_items)
    /\ \E i \in 1..Len(queue_file) :
          /\ queue_file[i].url = merged.new_items[1].url
          /\ queue_file[i].title = merged.new_items[1].title

----------------------------------------------------------------------------
(* C15.  Every queue file update_publish_queue writes is in descending     *)
(* order of (date, url), and the order is a function of the set of merged  *)
(* entries: handing the new items, or reading the stored entries, in any   *)
(* other order gives the same file whenever it gives the same entries.     *)

Reorderings(seq) ==
    {[i \in 1..Len(seq) |-> seq[p[i]]] :
        p \in {q \in [1..Len(seq) -> 1..Len(seq)] :
                  \A i, j \in 1..Len(seq) : q[i] = q[j] => i = j}}

Entries(queue) == {queue[i] : i \in 1..Len(queue)}

QueueOrderCanonical ==
    /\ [](\A i, j \in 1..Len(queue_file) :
            i < j => \/ queue_file[j].date < queue_file[i].date
                     \/ /\ queue_file[j].date = queue_file[i].date
                        /\ UrlRank[queue_file[j].url] < UrlRank[queue_file[i].url])
    /\ [][MergeStep /\ merged'.new_items # <<>>
          => \A stored \in Reorderings(queue_file) :
               \A supplied \in Reorderings(merged'.new_items) :
                   LET other == update_publish_queue(stored, supplied, clock)
                   IN  Entries(other) = Entries(queue_file') => other = queue_file']_vars

\* Two new items were handed over smallest key first and are stored largest
\* key first.
ReorderedWitness ==
    /\ merged.op = "merge"
    /\ Len(merged.new_items) = 2
    /\ Len(queue_file) = 2
    /\ queue_file[1].url = merged.new_items[2].url
    /\ queue_file[2].url = merged.new_items[1].url
    /\ queue_file[1].date > queue_file[2].date

----------------------------------------------------------------------------
(* C16.  A merge never drops or alters an entry it was not asked to        *)
(* replace: every entry of the queue file whose url is not among the new   *)
(* items is in the file afterwards with every stored field, state and      *)
(* queued_at included, as it was.                                          *)

MergeStable ==
    [][MergeStep
       => \A i \in 1..Len(queue_file) :
            queue_file[i].url \notin ListUrls(merged'.new_items)
            => \E j \in 1..Len(queue_file') : queue_file'[j] = queue_file[i]]_vars

\* An entry queued a second before the last merge, which brought another
\* url: the entry still carries its own timestamp.
KeptEntryWitness ==
    /\ merged.op = "merge"
    /\ merged.new_items # <<>>
    /\ \E i \in 1..Len(queue_file) :
          /\ queue_file[i].url \notin ListUrls(merged.new_items)
          /\ queue_file[i].queued_at < merged.at

----------------------------------------------------------------------------
(* Reading the history of a cascade.                                       *)

Called == cascade.op = "cascade"

\* What the network answered, or would have answered, for url in the call.
Answered(url) == Answer(cascade.net, url)

\* The validator: an answer with a status in 200..399, a content type that
\* is absent or says image, and a body that is not empty.
Validates(outcome) ==
    /\ outcome.kind = "response"
    /\ outcome.code \in 200..399
    /\ outcome.content_type \in {"", "image/jpeg", "image/png"}
    /\ outcome.body

Returned == cascade.out.result # NoReference

\* The call went through the scenario: a .webp seed that answers 404 and
\* whose .jpg rewrite answers 200 with an image content type.
WebpSeedScenario ==
    /\ Called
    /\ cascade.original_url.ext = ".webp"
    /\ Answered(cascade.original_url) = FetchHttpError
    /\ Answered(WithExt(cascade.original_url, ".jpg")).kind = "response"
    /\ Answered(WithExt(cascade.original_url, ".jpg")).code = 200
    /\ Answered(WithExt(cascade.original_url, ".jpg")).content_type
          \in {"image/jpeg", "image/png"}

\* The reference returned is derived from the k-th candidate, the first k
\* candidates are the ones fetched, and the k-th is the first that validates.
FirstValidIs(k) ==
    /\ cascade.out.result.key = cascade.out.ordered[k]
    /\ cascade.out.fetched = SubSeq(cascade.out.ordered, 1, k)
    /\ Validates(Answered(cascade.out.ordered[k]))
    /\ \A j \in 1..(k - 1) : ~Validates(Answered(cascade.out.ordered[j]))

----------------------------------------------------------------------------
(* C17.  First valid wins: a reference ensure_local_poster returns is      *)
(* derived from the first candidate, in list order, whose fetch validated; *)
(* the candidates before it were fetched and failed, none after it is      *)
(* fetched.  For a .webp seed that answers 404 and whose .jpg rewrite      *)
(* answers 200 with an image content type, the reference is the rewrite's  *)
(* and exactly one file is written.                                        *)

----------------------------------------------------------------------------
(* C18.  The list of candidates one cascade tries holds no locator twice,  *)
(* so no locator is fetched twice in one call, also when the page or the   *)
(* search returns the seed again; and replacement_candidates(L) holds      *)
(* neither L nor any locator twice.                                        *)

NoRepeat(seq) == \A i, j \in 1..Len(seq) : seq[i] = seq[j] => i = j

Elements(seq) == {seq[i] : i \in 1..Len(seq)}

NoCandidateTwice ==
    Called
    => /\ NoRepeat(cascade.out.ordered)
       /\ NoRepeat(cascade.out.fetched)
       /\ \A L \in Elements(cascade.out.ordered) :
             /\ NoRepeat(replacement_candidates(L))
             /\ L \notin Elements(replacement_candidates(L))

\* The page returned the seed again and the search a locator of the page;
\* every candidate failed, so the whole list was fetched.
SeedReturnedAgainWitness ==
    /\ Called
    /\ cascade.original_url = SeedWebp
    /\ SeedWebp \in Elements(cascade.page)
    /\ PageOnly \in Elements(cascade.page) \cap Elements(cascade.search)
    /\ cascade.out.fetched = cascade.out.ordered
    /\ ~cascade.out.raised
    /\ ~Returned

----------------------------------------------------------------------------
(* C19.  Priority order: the seed is tried first; every rewrite of the     *)
(* seed is tried before any candidate that only the page gave, every       *)
(* candidate of the page before any that only the search gave; and within  *)
(* each group the order is the order of generation.                        *)

Position(seq, x) == CHOOSE i \in 1..Len(seq) : seq[i] = x

Restrict(seq, S) == SelectSeq(seq, LAMBDA x : x \in S)

Rewrites == Elements(replacement_candidates(cascade.original_url))

SeedGroup == {cascade.original_url} \cup Rewrites

PageGroup == Elements(cascade.page) \ SeedGroup

SearchGroup == Elements(cascade.search) \ (SeedGroup \cup Elements(cascade.page))

PriorityOrder ==
    Called
    => LET ordered == cascade.out.ordered
       IN  /\ cascade.out.fetched = SubSeq(ordered, 1, Len(cascade.out.fetched))
           /\ Elements(ordered) = (SeedGroup \cup PageGroup \cup SearchGroup) \ {NoLocator}
           /\ (cascade.original_url # NoLocator => ordered[1] = cascade.original_url)
           /\ \A r \in Rewrites, p \in PageGroup \cup SearchGroup :
                 Position(ordered, r) < Position(ordered, p)
           /\ \A p \in Elements(cascade.page), q \in SearchGroup :
                 Position(ordered, p) < Position(ordered, q)
           /\ Restrict(ordered, Rewrites) = replacement_candidates(cascade.original_url)
           /\ Restrict(ordered, PageGroup) = Restrict(cascade.page, PageGroup)
           /\ Restrict(ordered, SearchGroup) = Restrict(cascade.search, SearchGroup)

\* A call with a candidate in each group, fetched down to the one only the
\* search gave.
AllGroupsTriedWitness ==
    /\ Called
    /\ Rewrites # {}
    /\ PageOnly \in PageGroup
    /\ SearchOnly \in SearchGroup
    /\ cascade.out.fetched # <<>>
    /\ cascade.out.fetched[Len(cascade.out.fetched)] = SearchOnly

----------------------------------------------------------------------------
(* C20.  The cascade never raises: a candidate whose fetch ends in an HTTP *)
(* error, a transport error or a timeout, at connect or while the body is  *)
(* read, counts as failed and the loop goes on to the next candidate; when *)
(* every candidate fails, ensure_local_poster returns the empty string.    *)

CascadeNeverRaises ==
    Called
    => /\ ~cascade.out.raised
       /\ ((\A k \in 1..Len(cascade.out.ordered) :
                ~Validates(Answered(cascade.out.ordered[k])))
           => /\ ~Returned
              /\ cascade.out.fetched = cascade.out.ordered)

----------------------------------------------------------------------------
(* C21.  Store idempotence: two successful resolutions of the same         *)
(* candidate, whatever content type each fetch declares, give the same     *)
(* file name and at most one write; when the file of the computed name     *)
(* exists, nothing is written and its reference is returned.               *)

StoreIdempotent ==
    /\ \A f, g \in posters : f.key = g.key => f = g
    /\ (Called /\ Returned
        => /\ \A f \in cascade.before : f.key = cascade.out.result.key
                                         => f = cascade.out.result
           /\ Cardinality(cascade.out.wrote) <= 1
           /\ (cascade.out.result \in cascade.before => cascade.out.wrote = {})
           /\ cascade.out.result \in posters)

----------------------------------------------------------------------------
(* C22.  A zero-length payload is never accepted or stored: a candidate    *)
(* whose answer has an empty body, whatever its status and content type,   *)
(* is a failed candidate: the reference returned is not derived from it,   *)
(* no file is written for it, and the next candidate of the list, if any,  *)
(* is fetched.                                                             *)

EmptyAnswer(url) == Answered(url).kind = "response" /\ ~Answered(url).body

EmptyBodyRejected ==
    Called
    => \A k \in 1..Len(cascade.out.fetched) :
          EmptyAnswer(cascade.out.fetched[k])
          => /\ cascade.out.result.key # cascade.out.fetched[k]
             /\ \A f \in cascade.out.wrote : f.key # cascade.out.fetched[k]
             /\ (k < Len(cascade.out.ordered) => k < Len(cascade.out.fetched))

\* The seed answered with an empty body under a success status; a later
\* candidate was fetched and stored.
EmptySeedSkippedWitness ==
    /\ Called
    /\ cascade.original_url # NoLocator
    /\ EmptyAnswer(cascade.original_url)
    /\ Answered(cascade.original_url).code \in 200..399
    /\ Returned
    /\ cascade.out.wrote = {cascade.out.result}

----------------------------------------------------------------------------
(* C23.  The acceptance decision of the cascade is the specified           *)
(* validator: a candidate is accepted only if the status is in 200..399    *)
(* and the content type advertises an image, or is empty while a separate  *)
(* HEAD probe reported success; a candidate with an empty content type and *)
(* no successful HEAD probe is rejected.                                   *)

Accepted == fetch.op = "fetch" /\ ~fetch.out.raised /\ fetch.out.data

SpecifiedValidator ==
    /\ fetch.outcome.kind = "response"
    /\ fetch.outcome.code \in 200..399
    /\ \/ fetch.outcome.content_type \in {"image/jpeg", "image/png"}
       \/ fetch.outcome.content_type = "" /\ fetch.head_ok

AcceptanceIsSpecifiedValidator ==
    fetch.op = "fetch" => (Accepted => SpecifiedValidator)

----------------------------------------------------------------------------
(* C24.  An ingest run ends in an error if and only if every feed source   *)
(* returned no entries: with entries from at least one source the run ends *)
(* normally, whatever fails in the details, the poster, the push or the    *)
(* queue of single items; and a run that ends in the fatal error leaves    *)
(* the queue file as it was.                                               *)

AllFeedsEmpty == \A i \in 1..Len(RSS_SOURCES) : ~ingest.has_entries[i]

FatalIffAllFeedsFailed ==
    ingest.op = "run"
    => /\ (ingest.uncaught \/ ingest.fatal) <=> AllFeedsEmpty
       /\ (ingest.fatal => queue_file = ingest.queue_before)

----------------------------------------------------------------------------
(* C25.  When post_to_platform performs a send, it returns a result: the   *)
(* status is 'success' exactly when a response came with a code in         *)
(* 200-299; every other response and every transport error gives 'failed'  *)
(* with the response's code (none for a transport error); and the message  *)
(* is at most MessageBound characters long.                                *)

MessageBound == 400

SendPerformed == "message_len" \in DOMAIN call /\ call.out.sent

OutcomeMapping ==
    SendPerformed
    => LET net == call.net
           res == call.out.result
           ok  == net.kind = "response" /\ 200 <= net.code /\ net.code <= 299
       IN  /\ ~call.out.raised
           /\ res.status = (IF ok THEN "success" ELSE "failed")
           /\ res.http_code = (IF net.kind \in {"response", "HTTPError"}
                               THEN {net.code} ELSE {})
           /\ call.message_len <= MessageBound

----------------------------------------------------------------------------
(* C26.  Quiescence.  Once MAX_ATTEMPTS dispatcher runs have run to their  *)
(* end since a url last entered the queue, every slot of every queue item  *)
(* is terminal; and a run that finds every slot terminal invokes no        *)
(* adapter, does not write the state file and ends by reporting no state   *)
(* changes.  It holds whatever endpoints the runs had configured.          *)

Quiescence ==
    /\ [](Completed >= MAX_ATTEMPTS => AllTerminal)
    /\ [][(DispatchStep /\ AllTerminal)
          => /\ last'.called = {}
             /\ ~last'.raised
             /\ ~last'.written
             /\ status_file' = status_file]_vars

\* The fourth run over a queue whose slots three runs with an endpoint for
\* every platform brought to the cap, one of them never successful.
QuiescentWitness ==
    /\ QueueSlots # {}
    /\ Completed > MAX_ATTEMPTS
    /\ last.unconfigured = {}
    /\ last.called = {}
    /\ ~last.written
    /\ \E s \in QueueSlots :
         /\ SlotOf(status_file, s).status = "failed"
         /\ SlotOf(status_file, s).attempts = MAX_ATTEMPTS
    /\ status_file.updated_at < clock

----------------------------------------------------------------------------
(* C27.  fetch_douban_details resolves each field from the first of the    *)
(* detail API, the abstract API and the page that has it: a field an       *)
(* earlier source gave is what the call returns; the abstract API is       *)
(* queried only when a field is empty after the detail API; the page is    *)
(* fetched only when there is no subject id or a field is empty after both *)
(* APIs; and when the fetch of the page fails, the call returns the fields *)
(* resolved so far.                                                        *)

Queried(source) == \E i \in 1..Len(details.out.fetched) : details.out.fetched[i] = source

HasSid == details.source_link = "sid"

AfterDetail(field) == IF HasSid THEN Text(details.detail, field) ELSE ""

AfterApis(field) ==
    IF HasSid THEN Either(AfterDetail(field), Text(details.abstract, field)) ELSE ""

DetailCascadeOrder ==
    details.op = "details" /\ details.source_link # ""
    => /\ ~details.out.raised
          => \A field \in {"cast", "summary"} :
               details.out[field] = Either(AfterApis(field), Text(details.page, field))
       /\ Queried("abstract")
          => HasSid /\ (AfterDetail("cast") = "" \/ AfterDetail("summary") = "")
       /\ Queried("page")
          => ~HasSid \/ AfterApis("cast") = "" \/ AfterApis("summary") = ""
       /\ (Queried("page") /\ details.page.kind # "ok")
          => /\ ~details.out.raised
             /\ \A field \in {"cast", "summary"} : details.out[field] = AfterApis(field)

====
